---- MODULE Spec2Model ----
(***************************************************************************)
(* Model of changes.py: counting how often each file appears in the git    *)
(* log (get_commit_touch_counts), building the nested tree with aggregated *)
(* counts (build_repo_tree) and rendering it (print_tree).                 *)
(*                                                                         *)
(* Strings are sequences of code points, so that str.split, str.startswith,*)
(* str.lstrip, str.strip and the ordering used by sorted() are computed as *)
(* Python computes them.  A dict is the sequence of its entries in         *)
(* insertion order (the order Python iterates it in).                      *)
(***************************************************************************)
EXTENDS Integers, Sequences, FiniteSets, TLC

VARIABLES
    \* build_repo_tree / print_tree
    touch_counts,   \* the dict handed to build_repo_tree: <<[path, count], ...>>
    base_path,      \* the label handed to build_repo_tree: ".", as main passes
    tree,           \* the root node under construction / constructed
    idx,            \* number of entries of touch_counts already inserted
    pc,             \* "insert" -> "built" -> "printed" -> "done"
    out,            \* lines written by the first print_tree call
    out2,           \* lines written by the second print_tree call
    \* get_commit_touch_counts
    output,         \* output.splitlines() of git log: a sequence of lines
    relative_path,  \* <<>> stands for None / ""
    lineno,         \* number of lines already processed
    changes_count   \* the defaultdict(int): <<[path, count], ...>>

vars == <<touch_counts, base_path, tree, idx, pc, out, out2,
          output, relative_path, lineno, changes_count>>

countVars == <<output, relative_path, lineno, changes_count>>

-----------------------------------------------------------------------------
\* Bounds of the model

\* total number of path segments over all keys of touch_counts
MaxParts == 4
\* largest per-file touch count
MaxCount == 1
\* longest line of git output
MaxLineLen == 4
\* number of lines of git output
MaxLines == 2

-----------------------------------------------------------------------------
\* Characters

SLASH == 47
DOT == 46
SPACE == 32

\* segment names the inputs are built from: "", ".", "B", "a"
Names == {<<>>, <<DOT>>, <<66>>, <<97>>}

\* characters of a git log line: "/", "a", " "
LineChars == {SLASH, 97, SPACE}

\* "└──" and "├──"
LAST_CONNECTOR == <<9492, 9472, 9472>>
MID_CONNECTOR == <<9500, 9472, 9472>>
\* "    " and "│   "
LAST_INDENT == <<SPACE, SPACE, SPACE, SPACE>>
MID_INDENT == <<9474, SPACE, SPACE, SPACE>>

-----------------------------------------------------------------------------
\* Python string primitives

\* position of the first c in s, 0 if there is none
RECURSIVE Find(_, _, _)
Find(s, c, i) ==
    IF i > Len(s) THEN 0
    ELSE IF s[i] = c THEN i
    ELSE Find(s, c, i + 1)

\* file_path.split('/')
RECURSIVE split(_)
split(s) ==
    LET i == Find(s, SLASH, 1)
    IN IF i = 0 THEN <<s>>
       ELSE <<SubSeq(s, 1, i - 1)>> \o split(SubSeq(s, i + 1, Len(s)))

\* s.startswith(p)
startswith(s, p) == Len(p) <= Len(s) /\ SubSeq(s, 1, Len(p)) = p

\* s.lstrip(c)
RECURSIVE lstrip(_, _)
lstrip(s, c) ==
    IF s # <<>> /\ s[1] = c THEN lstrip(Tail(s), c) ELSE s

\* s.rstrip(c)
RECURSIVE rstrip(_, _)
rstrip(s, c) ==
    IF s # <<>> /\ s[Len(s)] = c THEN rstrip(SubSeq(s, 1, Len(s) - 1), c) ELSE s

\* line.strip(): whitespace off both ends
strip(s) == rstrip(lstrip(s, SPACE), SPACE)

\* s < t for Python strings: code point by code point, a proper prefix first
RECURSIVE StrLess(_, _)
StrLess(s, t) ==
    IF t = <<>> THEN FALSE
    ELSE IF s = <<>> THEN TRUE
    ELSE IF s[1] # t[1] THEN s[1] < t[1]
    ELSE StrLess(Tail(s), Tail(t))

\* insertion of k into an ascending list, after the keys not greater than it
RECURSIVE SortedInsert(_, _)
SortedInsert(k, ks) ==
    IF ks = <<>> THEN <<k>>
    ELSE IF StrLess(k, Head(ks)) THEN <<k>> \o ks
    ELSE <<Head(ks)>> \o SortedInsert(k, Tail(ks))

RECURSIVE SortAsc(_)
SortAsc(ks) ==
    IF ks = <<>> THEN <<>>
    ELSE SortedInsert(ks[Len(ks)], SortAsc(SubSeq(ks, 1, Len(ks) - 1)))

\* the keys in the order they were inserted (what a missing sort would give)
sorted_unsorted(ks) == ks

\* sorted(node["children"].keys())
sorted(ks) == SortAsc(ks)

\* str(n) for n >= 0
RECURSIVE Digits(_)
Digits(n) ==
    IF n < 10 THEN <<48 + n>> ELSE Digits(n \div 10) \o <<48 + (n % 10)>>

-----------------------------------------------------------------------------
\* Dicts as entry sequences

\* d.keys() of a children dict (a sequence of nodes keyed by their name)
keys(children) == [i \in 1..Len(children) |-> children[i].name]

\* index of the entry whose key is part, 0 when `part not in children`
child_index(children, part) ==
    IF \E i \in 1..Len(children) : children[i].name = part
    THEN CHOOSE i \in 1..Len(children) :
            /\ children[i].name = part
            /\ \A j \in 1..(i - 1) : children[j].name # part
    ELSE 0

\* index of the entry of a path -> count dict, 0 if absent
entry_index(d, path) ==
    IF \E i \in 1..Len(d) : d[i].path = path
    THEN CHOOSE i \in 1..Len(d) : d[i].path = path
    ELSE 0

-----------------------------------------------------------------------------
\* build_repo_tree

NewNode(name) == [name |-> name, count |-> 0, children |-> <<>>]

\* the walk without the `part not in children` test: every segment gets a
\* fresh node
RECURSIVE insert_path_always_new(_, _, _)
insert_path_always_new(current_node, parts, ccount) ==
    IF parts = <<>>
    THEN [current_node EXCEPT !.count = @ + ccount]
    ELSE LET kids == Append(current_node.children, NewNode(Head(parts)))
         IN [current_node EXCEPT
               !.children = [kids EXCEPT
                   ![Len(kids)] =
                       insert_path_always_new(kids[Len(kids)], Tail(parts), ccount)]]

\* the walk of one path from current_node, then `count += ccount` at its end
RECURSIVE insert_path(_, _, _)
insert_path(current_node, parts, ccount) ==
    IF parts = <<>>
    THEN [current_node EXCEPT !.count = @ + ccount]
    ELSE LET part == Head(parts)
             i == child_index(current_node.children, part)
             kids == IF i = 0
                     THEN Append(current_node.children, NewNode(part))
                     ELSE current_node.children
             j == IF i = 0 THEN Len(kids) ELSE i
         IN [current_node EXCEPT
               !.children = [kids EXCEPT
                   ![j] = insert_path(kids[j], Tail(parts), ccount)]]

RECURSIVE SumSeq(_)
SumSeq(s) == IF s = <<>> THEN 0 ELSE Head(s) + SumSeq(Tail(s))

\* a directory's count is overwritten by the sum of its children
RECURSIVE aggregate_counts_overwrite(_)
aggregate_counts_overwrite(node) ==
    LET kids == [i \in 1..Len(node.children) |->
                    aggregate_counts_overwrite(node.children[i])]
        total == IF kids = <<>> THEN node.count
                 ELSE SumSeq([i \in 1..Len(kids) |-> kids[i].count])
    IN [node EXCEPT !.count = total, !.children = kids]

\* only the direct children's own counts are added, without recursion
aggregate_counts_shallow(node) ==
    [node EXCEPT !.count =
        @ + SumSeq([i \in 1..Len(node.children) |-> node.children[i].count])]

\* the node after aggregate_counts(node); its return value is the new count
RECURSIVE aggregate_counts(_)
aggregate_counts(node) ==
    LET kids == [i \in 1..Len(node.children) |->
                    aggregate_counts(node.children[i])]
        total == node.count + SumSeq([i \in 1..Len(kids) |-> kids[i].count])
    IN [node EXCEPT !.count = total, !.children = kids]

\* the tree after the insertion loop over the first n entries
RECURSIVE inserted(_, _, _)
inserted(base, counts, n) ==
    IF n = 0 THEN [name |-> base, count |-> 0, children |-> <<>>]
    ELSE insert_path(inserted(base, counts, n - 1),
                     split(counts[n].path), counts[n].count)

build_repo_tree(base, counts) ==
    aggregate_counts(inserted(base, counts, Len(counts)))

-----------------------------------------------------------------------------
\* print_tree

\* one print() call: the pieces of the f-string, and the node's place in the
\* tree (`at`, the names from the root down; not part of the text)
Line(prefix, is_last, node, at) ==
    [prefix    |-> prefix,
     connector |-> IF is_last THEN LAST_CONNECTOR ELSE MID_CONNECTOR,
     name      |-> node.name,
     count     |-> node.count,
     at        |-> at]

\* f"{prefix}{connector} {node_name} ({node_count})"
Text(l) ==
    l.prefix \o l.connector \o <<SPACE>> \o l.name \o <<SPACE, 40>>
        \o Digits(l.count) \o <<41>>

RECURSIVE print_tree(_, _, _, _)
RECURSIVE print_children(_, _, _, _, _)

\* the loop over children_keys from position i on
print_children(node, children_keys, i, new_prefix, at) ==
    IF i > Len(children_keys) THEN <<>>
    ELSE LET child_key == children_keys[i]
             child_node == node.children[child_index(node.children, child_key)]
             child_is_last == (i = Len(children_keys))
         IN print_tree(child_node, new_prefix, child_is_last,
                       Append(at, child_key))
            \o print_children(node, children_keys, i + 1, new_prefix, at)

\* the lines print_tree(node, prefix, is_last) writes, in order
print_tree(node, prefix, is_last, at) ==
    LET own == IF node.name # <<DOT>>
               THEN <<Line(prefix, is_last, node, at)>>
               ELSE <<>>
        new_prefix == prefix \o (IF is_last THEN LAST_INDENT ELSE MID_INDENT)
        children_keys == sorted(keys(node.children))
    IN own \o print_children(node, children_keys, 1, new_prefix, at)

-----------------------------------------------------------------------------
\* Inputs of build_repo_tree

RECURSIVE JoinPath(_)
JoinPath(parts) ==
    IF Len(parts) = 1 THEN parts[1]
    ELSE parts[1] \o <<SLASH>> \o JoinPath(Tail(parts))

\* the non-empty paths of exactly n segments
PathsOfParts(n) ==
    {JoinPath(ps) : ps \in [1..n -> Names]} \ {<<>>}

Counts == 0..MaxCount

\* the keys of a path -> count dict
paths(d) == {d[i].path : i \in 1..Len(d)}

\* the dicts (in every insertion order) whose keys have at most b segments in all
RECURSIVE Mappings(_)
RECURSIVE MappingsFrom(_, _)

\* those whose first key has at least n segments
MappingsFrom(b, n) ==
    IF n > b THEN {}
    ELSE { s \in { <<[path |-> p, count |-> c]>> \o m :
                      p \in PathsOfParts(n), c \in Counts, m \in Mappings(b - n) } :
             Head(s).path \notin paths(Tail(s)) }
         \cup MappingsFrom(b, n + 1)

Mappings(b) == {<<>>} \cup MappingsFrom(b, 1)

-----------------------------------------------------------------------------
\* Specification of build_repo_tree followed by two print_tree calls

NoCounting ==
    /\ output = <<>>
    /\ relative_path = <<>>
    /\ lineno = 0
    /\ changes_count = <<>>

Init ==
    /\ touch_counts \in Mappings(MaxParts)
    /\ base_path = <<DOT>>
    /\ tree = [name |-> base_path, count |-> 0, children |-> <<>>]
    /\ idx = 0
    /\ pc = "insert"
    /\ out = <<>>
    /\ out2 = <<>>
    /\ NoCounting

\* one iteration of `for file_path, ccount in touch_counts.items()`
InsertEntry ==
    /\ pc = "insert"
    /\ idx < Len(touch_counts)
    /\ tree' = insert_path(tree, split(touch_counts[idx + 1].path),
                           touch_counts[idx + 1].count)
    /\ idx' = idx + 1
    /\ UNCHANGED <<touch_counts, base_path, pc, out, out2, countVars>>

\* aggregate_counts(tree); return tree
Aggregate ==
    /\ pc = "insert"
    /\ idx = Len(touch_counts)
    /\ tree' = aggregate_counts(tree)
    /\ pc' = "built"
    /\ UNCHANGED <<touch_counts, base_path, idx, out, out2, countVars>>

\* a traversal that consumes the children it has visited
PrintTree_destructive ==
    /\ pc = "built"
    /\ out' = print_tree(tree, <<>>, TRUE, <<>>)
    /\ tree' = [tree EXCEPT !.children = <<>>]
    /\ pc' = "printed"
    /\ UNCHANGED <<touch_counts, base_path, idx, out2, countVars>>

\* print_tree(repo_tree, prefix="", is_last=True)
PrintTree ==
    /\ pc = "built"
    /\ out' = print_tree(tree, <<>>, TRUE, <<>>)
    /\ tree' = tree
    /\ pc' = "printed"
    /\ UNCHANGED <<touch_counts, base_path, idx, out2, countVars>>

\* the same call once more on the same tree
PrintTreeAgain ==
    /\ pc = "printed"
    /\ out2' = print_tree(tree, <<>>, TRUE, <<>>)
    /\ tree' = tree
    /\ pc' = "done"
    /\ UNCHANGED <<touch_counts, base_path, idx, out, countVars>>

Next ==
    \/ InsertEntry
    \/ Aggregate
    \/ PrintTree
    \/ PrintTreeAgain

Spec == Init /\ [][Next]_vars

-----------------------------------------------------------------------------
\* Specification of get_commit_touch_counts (the loop over the git log lines)

\* directories passed as --relative-path: none, "a", "a/"
RelPaths == {<<>>, <<97>>, <<97, SLASH>>}

LinesUpTo(n) == UNION {[1..k -> LineChars] : k \in 0..n}

Outputs == UNION {[1..k -> LinesUpTo(MaxLineLen)] : k \in 0..MaxLines}

\* changes_count[file_path] += 1 on a defaultdict(int)
increment(d, path) ==
    LET i == entry_index(d, path)
    IN IF i = 0 THEN Append(d, [path |-> path, count |-> 1])
       ELSE [d EXCEPT ![i].count = @ + 1]

\* the path a line is counted under, <<>> when the line is skipped
counted_path(line, rel) ==
    LET file_path == strip(line)
    IN IF file_path = <<>> THEN <<>>
       ELSE IF rel # <<>>
            THEN IF ~startswith(file_path, rel) THEN <<>>
                 ELSE lstrip(SubSeq(file_path, Len(rel) + 1, Len(file_path)), SLASH)
            ELSE file_path

InitCounts ==
    /\ output \in Outputs
    /\ relative_path \in RelPaths
    /\ lineno = 0
    /\ changes_count = <<>>
    /\ pc = "count"
    /\ touch_counts = <<>>
    /\ base_path = <<DOT>>
    /\ tree = [name |-> base_path, count |-> 0, children |-> <<>>]
    /\ idx = 0
    /\ out = <<>>
    /\ out2 = <<>>

\* one iteration of `for line in output.splitlines()`
CountLine ==
    /\ pc = "count"
    /\ lineno < Len(output)
    /\ LET file_path == counted_path(output[lineno + 1], relative_path)
       IN changes_count' = IF file_path # <<>>
                           THEN increment(changes_count, file_path)
                           ELSE changes_count
    /\ lineno' = lineno + 1
    /\ UNCHANGED <<output, relative_path, pc, touch_counts, base_path, tree,
                   idx, out, out2>>

\* return changes_count
ReturnCounts ==
    /\ pc = "count"
    /\ lineno = Len(output)
    /\ pc' = "returned"
    /\ UNCHANGED <<output, relative_path, lineno, changes_count, touch_counts,
                   base_path, tree, idx, out, out2>>

NextCounts ==
    \/ CountLine
    \/ ReturnCounts

SpecCounts == InitCounts /\ [][NextCounts]_vars

-----------------------------------------------------------------------------
\* Vocabulary of the properties

\* build_repo_tree has returned and nothing has been printed yet
Built == pc = "built"

\* the nodes of a tree in pre-order, each with the names from the root down
RECURSIVE NodeList(_, _)
RECURSIVE KidList(_, _, _)

KidList(node, i, at) ==
    IF i > Len(node.children) THEN <<>>
    ELSE NodeList(node.children[i], Append(at, node.children[i].name))
         \o KidList(node, i + 1, at)

NodeList(node, at) == <<[at |-> at, node |-> node]>> \o KidList(node, 1, at)

Nodes == NodeList(tree, <<>>)

ChildSum(node) ==
    SumSeq([i \in 1..Len(node.children) |-> node.children[i].count])

InputSum == SumSeq([i \in 1..Len(touch_counts) |-> touch_counts[i].count])

\* split() of every input path
InputParts == [i \in 1..Len(touch_counts) |-> split(touch_counts[i].path)]

\* the count assigned directly to the node at `at` by the insertion loop
Own(parts, at) ==
    SumSeq([i \in 1..Len(touch_counts) |->
              IF parts[i] = at THEN touch_counts[i].count ELSE 0])

IsPrefix(a, b) == Len(a) <= Len(b) /\ SubSeq(b, 1, Len(a)) = a

\* the sum of the counts of the input paths at or below `at`
Below(parts, at) ==
    SumSeq([i \in 1..Len(touch_counts) |->
              IF IsPrefix(at, parts[i]) THEN touch_counts[i].count ELSE 0])

\* the segment-prefixes of the input paths, and the root
SegmentPrefixes(parts) ==
    {<<>>} \cup
    UNION { {SubSeq(parts[i], 1, k) : k \in 1..Len(parts[i])} :
            i \in 1..Len(parts) }

Reverse(s) == [i \in 1..Len(s) |-> s[Len(s) + 1 - i]]

\* a path as the builder's contract describes it: no leading or trailing slash
WellFormed(path) ==
    path # <<>> /\ path[1] # SLASH /\ path[Len(path)] # SLASH

\* every key of touch_counts satisfies P
AllPaths(P(_)) == \A i \in 1..Len(touch_counts) : P(touch_counts[i].path)

\* no segment of the path is empty / is "."
NoEmptySegment(path) == \A k \in DOMAIN split(path) : split(path)[k] # <<>>
NoDotSegment(path) == \A k \in DOMAIN split(path) : split(path)[k] # <<DOT>>

\* a path of ordinary file and directory names
Ordinary(path) == NoEmptySegment(path) /\ NoDotSegment(path)

\* the path with every run of slashes replaced by one slash
RECURSIVE Squeeze(_)
Squeeze(s) ==
    IF Len(s) < 2 THEN s
    ELSE IF s[1] = SLASH /\ s[2] = SLASH THEN Squeeze(Tail(s))
    ELSE <<s[1]>> \o Squeeze(Tail(s))

\* the lines written for the node at `at`
LinesAt(at) == {i \in 1..Len(out) : out[i].at = at}

\* name is the greatest of the keys of children
Greatest(children, name) ==
    \A i \in 1..Len(children) :
        children[i].name = name \/ StrLess(children[i].name, name)

-----------------------------------------------------------------------------
\* Properties

C2_RootCountIsInputSum ==
    (Built /\ touch_counts # <<>>) =>
        /\ tree.count = InputSum
        /\ tree.count = build_repo_tree(base_path, Reverse(touch_counts)).count

C2_Witness ==
    /\ Built
    /\ AllPaths(Ordinary)
    /\ Len(touch_counts) >= 2
    /\ \A i \in 1..Len(touch_counts) : touch_counts[i].count > 0
    /\ \E i \in 1..Len(touch_counts) : Len(split(touch_counts[i].path)) >= 2
    /\ tree.count = InputSum

\* C3: empty segments are skipped: no node of a built tree has the empty
\* name, and a single path with consecutive slashes builds the same tree as
\* the path with single slashes.
C3_EmptySegmentsSkipped ==
    (Built /\ AllPaths(WellFormed) /\ AllPaths(NoDotSegment)) =>
        /\ LET ns == Nodes
           IN \A i \in 2..Len(ns) : ns[i].node.name # <<>>
        /\ Len(touch_counts) = 1 =>
              tree = build_repo_tree(base_path,
                        <<[path |-> Squeeze(touch_counts[1].path),
                           count |-> touch_counts[1].count]>>)

\* C4: printing a root named "." with prefix "" writes no line for the root
\* and writes every direct child of the root with the prefix "", so that the
\* line starts with its connector.
C4_TopLevelPrefixEmpty ==
    (pc = "printed" /\ base_path = <<DOT>> /\ AllPaths(Ordinary)) =>
        \A i \in 1..Len(out) :
            /\ out[i].at # <<>>
            /\ Len(out[i].at) = 1 =>
                  /\ out[i].prefix = <<>>
                  /\ startswith(Text(out[i]), out[i].connector)

\* C5: print_tree writes exactly one line for each node other than the root
\* and none for the root, whatever the root's label and the nodes' names.
C5_OneLinePerNonRootNode ==
    (pc = "printed" /\ base_path = <<DOT>> /\ AllPaths(NoEmptySegment)) =>
        LET ns == Nodes
        IN /\ LinesAt(<<>>) = {}
           /\ \A i \in 2..Len(ns) : Cardinality(LinesAt(ns[i].at)) = 1
           /\ Len(out) = Len(ns) - 1

\* C6: of the children of every node, exactly the one with the greatest name
\* is printed with the terminal connector and every other one is printed with
\* the continuation connector.
C6_ConnectorOfEachChild ==
    (pc = "printed" /\ AllPaths(NoEmptySegment)) =>
        LET ns == Nodes
        IN \A i \in 1..Len(ns) :
            \A k \in 1..Len(ns[i].node.children) :
                LET child == ns[i].node.children[k]
                    ls == LinesAt(Append(ns[i].at, child.name))
                IN /\ Cardinality(ls) = 1
                   /\ \A l \in ls :
                        out[l].connector =
                            IF Greatest(ns[i].node.children, child.name)
                            THEN LAST_CONNECTOR ELSE MID_CONNECTOR

\* C7: siblings are visited in ascending order of their names, whatever the
\* insertion order: when x < y are siblings, every line of x and of x's
\* subtree is written before every line of y and of y's subtree.
C7_SiblingsInAscendingOrder ==
    pc = "printed" =>
        \A i, j \in 1..Len(out) :
            \A k \in 1..Len(out[i].at) :
                ( /\ k <= Len(out[j].at)
                  /\ SubSeq(out[i].at, 1, k - 1) = SubSeq(out[j].at, 1, k - 1)
                  /\ StrLess(out[i].at[k], out[j].at[k]) ) => i < j

\* two printed siblings inserted in descending order, the smaller with a subtree
C7_Witness ==
    /\ pc = "printed"
    /\ AllPaths(Ordinary)
    /\ LET ns == Nodes
       IN \E i \in 1..Len(ns) :
            LET kids == ns[i].node.children
            IN \E a, b \in 1..Len(kids) :
                /\ a < b
                /\ StrLess(kids[b].name, kids[a].name)
                /\ kids[b].children # <<>>
                /\ \E l, m, n \in 1..Len(out) :
                    /\ out[l].at = Append(ns[i].at, kids[b].name)
                    /\ Len(out[m].at) > Len(out[l].at)
                    /\ IsPrefix(out[l].at, out[m].at)
                    /\ out[n].at = Append(ns[i].at, kids[a].name)
                    /\ l < m /\ m < n

\* a step taken by print_tree leaves the tree as it was
TreeKeptByPrint == pc \in {"built", "printed"} => tree' = tree

C9_OneNodePerSegmentPrefix ==
    Built =>
        LET ns == Nodes
            parts == InputParts
        IN /\ \A i, j \in 1..Len(ns) : ns[i].at = ns[j].at => i = j
           /\ {ns[i].at : i \in 1..Len(ns)} = SegmentPrefixes(parts)
           /\ \A i \in 1..Len(ns) : ns[i].node.count = Below(parts, ns[i].at)

\* two input paths through the same directory, ending in different files
C9_Witness ==
    /\ Built
    /\ AllPaths(Ordinary)
    /\ \E i, j \in 1..Len(touch_counts) :
        LET p == split(touch_counts[i].path)
            q == split(touch_counts[j].path)
        IN /\ Len(p) = 2 /\ Len(q) = 2
           /\ p[1] = q[1] /\ p[2] # q[2]
           /\ touch_counts[i].count > 0 /\ touch_counts[j].count > 0
           /\ LET ns == Nodes
              IN \E n \in 1..Len(ns) :
                    /\ ns[n].at = <<p[1]>>
                    /\ Len(ns[n].node.children) = 2
                    /\ ns[n].node.count =
                          touch_counts[i].count + touch_counts[j].count

\* the line's file lies inside the directory rel
Under(file_path, rel) ==
    LET dir == IF rel[Len(rel)] = SLASH THEN rel ELSE rel \o <<SLASH>>
    IN startswith(file_path, dir) /\ Len(file_path) > Len(dir)

\* C10: with a relative_path, only the lines of files inside that directory
\* contribute to the returned mapping; a file of a sibling whose name merely
\* starts with the same characters contributes nothing.
C10_OnlyFilesUnderRelativePath ==
    (pc = "returned" /\ relative_path # <<>>) =>
        \A e \in 1..Len(changes_count) :
            changes_count[e].count <=
                Cardinality({i \in 1..Len(output) :
                    /\ Under(strip(output[i]), relative_path)
                    /\ counted_path(output[i], relative_path)
                          = changes_count[e].path})

====
